---- MODULE Spec2Model ----
(***************************************************************************)
(* Model of the Supabase -> Google Sheets migration tools of the albums    *)
(* collection app:                                                         *)
(*   src/scripts/supabase_to_sheets.py  (SupabaseToSheetsImporter, the     *)
(*                                       size-bounded pipeline)            *)
(*   src/migrate_to_sheets.py           (SupabaseExporter,                 *)
(*                                       GoogleSheetsImporter,             *)
(*                                       MigrationValidator, run_migration)*)
(*                                                                         *)
(* The specifications share the variables:                                 *)
(*   SpecEnc   the cell encoder safe_json_stringify on bounded inputs      *)
(*   Spec      one run of SupabaseToSheetsImporter.run_migration           *)
(*   SpecTwice two fault-free runs of SupabaseToSheetsImporter in a row    *)
(*   SpecAgain run_migration called twice on one SupabaseToSheetsImporter  *)
(*   SpecMig   one run of migrate_to_sheets.run_migration                  *)
(*   SpecBoth  one run of either pipeline                                  *)
(*   SpecFair  one run of either pipeline, every possible step taken       *)
(*   SpecVerify verify_import on arbitrary worksheets and expected counts  *)
(*   SpecReset one run of either pipeline on a destination in any state    *)
(*   SpecRow   the row builders on records with missing and null fields    *)
(* Remote calls fail nondeterministically, at most MaxFaults times a run.  *)
(***************************************************************************)
EXTENDS Integers, Sequences, FiniteSets, TLC

VARIABLES
    \* ---- encoder (safe_json_stringify) ----
    epc,               \* "call" / "returned"; "record" / "built" for a row
    data,              \* the value handed to safe_json_stringify
    field_name,        \* its field name
    result,            \* the returned string
    truncation_count,  \* self.truncation_count
    passed,            \* the value data had when the call was made
    record,            \* the source record handed to a row builder
    builder,           \* which row builder was called
    row,               \* the row it returned
    \* ---- the two remote stores ----
    src_albums,        \* number of records of the source table albums (ids 1..n, ordered by id)
    src_history,       \* number of records of scraped_artists_history
    albums_sheet,      \* rows of the worksheet "Albums", row 1 first
    history_sheet,     \* rows of the worksheet "Scraped_History"
    faults,            \* remote-call failures still to be injected
    \* ---- a migration run ----
    pc,                \* position of the run
    total_albums,      \* total_albums of run_migration
    history_data,      \* len(history_data) / len(history)
    offset,            \* page offset of the fetch loop
    batch_albums,      \* ids of the page being loaded (script) / of the batch being written (migrate)
    loop_i,            \* i, the index of the chunk / batch loop
    imported_count,    \* imported_count
    albums,            \* exporter.albums of migrate_to_sheets.py (ids)
    verdict,           \* what run_migration returned: "none" while running, "True", "False"
    \* ---- history of the run (observation only) ----
    failures,          \* kinds of remote failures that happened
    requested,         \* offsets of the page requests, in order
    fetched,           \* ids received from the source, in order
    write_log,         \* data-row write calls on "Albums", in order
    reconciled,        \* the reconciliation (verify_import / validator) was invoked
    run,               \* 1 for the first run, 2 for a rerun
    first_run,         \* destination content before and after the first run
    calls              \* fetch, clear and write calls issued on the stores, in order

encVars == <<epc, data, field_name, result, truncation_count, passed, record,
             builder, row>>

storeVars == <<src_albums, src_history, albums_sheet, history_sheet, faults>>

runVars == <<pc, total_albums, history_data, offset, batch_albums, loop_i, imported_count,
             albums, verdict>>

obsVars == <<failures, requested, fetched, write_log, reconciled, run, first_run,
             calls>>

vars == <<encVars, storeVars, runVars, obsVars>>

(***************************************************************************)
(* Text.  A string is a sequence of runs; the run [c |-> u, n |-> k] is    *)
(* the text u repeated k times.  Lengths are exact character counts, so    *)
(* MAX_CELL_SIZE keeps the program's value.                                *)
(***************************************************************************)
Run(c, n) == [c |-> c, n |-> n]

Lit(c) == <<Run(c, 1)>>

\* len(s): the sum of the runs' widths (by halving, to keep the recursion shallow)
RECURSIVE WidthOf(_, _, _)
WidthOf(s, lo, hi) ==
    IF lo > hi THEN 0
    ELSE IF lo = hi THEN Len(s[lo].c) * s[lo].n
    ELSE LET mid == (lo + hi) \div 2
         IN  WidthOf(s, lo, mid) + WidthOf(s, mid + 1, hi)

StrLen(s) == WidthOf(s, 1, Len(s))

\* sep.join(parts[lo..hi])
RECURSIVE Join(_, _, _, _)
Join(parts, sep, lo, hi) ==
    IF lo > hi THEN <<>>
    ELSE IF lo = hi THEN parts[lo]
    ELSE LET mid == (lo + hi) \div 2
         IN  Join(parts, sep, lo, mid) \o sep \o Join(parts, sep, mid + 1, hi)

\* s[:k] of Python, on runs of one-character units
RECURSIVE Take(_, _)
Take(s, k) ==
    IF s = <<>> \/ k <= 0 THEN <<>>
    ELSE LET r == Head(s)
             w == Len(r.c) * r.n
         IN  IF w <= k THEN <<r>> \o Take(Tail(s), k - w)
             ELSE LET m == k \div Len(r.c)
                  IN  IF m = 0 THEN <<>> ELSE <<Run(r.c, m)>>

\* str(n) of Python for a natural number
DigitChar == <<"0", "1", "2", "3", "4", "5", "6", "7", "8", "9">>

RECURSIVE ToDecimal(_)
ToDecimal(n) == IF n < 10 THEN DigitChar[n + 1]
                ELSE ToDecimal(n \div 10) \o DigitChar[(n % 10) + 1]

(***************************************************************************)
(* JSON values: the tagged union {null, bool, int, str, list, dict} of a   *)
(* decoded source record, plus "opaque" for a Python object json.dumps     *)
(* cannot serialize.  A dict is its items in iteration order.              *)
(***************************************************************************)
JNull == [k |-> "null"]
JBool(b) == [k |-> "bool", b |-> b]
JInt(i) == [k |-> "int", i |-> i]
JStr(s) == [k |-> "str", s |-> s]
JList(items) == [k |-> "list", items |-> items]
JDict(entries) == [k |-> "dict", entries |-> entries]
JOpaque == [k |-> "opaque"]

\* Python truthiness, the test `not data`
Truthy(v) ==
    CASE v.k = "null" -> FALSE
      [] v.k = "bool" -> v.b
      [] v.k = "int"  -> v.i # 0
      [] v.k = "str"  -> StrLen(v.s) > 0
      [] v.k = "list" -> Len(v.items) > 0
      [] v.k = "dict" -> Len(v.entries) > 0
      [] OTHER        -> TRUE

\* json.dumps raises TypeError on a value that holds a non-JSON object
RECURSIVE Serializable(_)
Serializable(v) ==
    CASE v.k = "opaque" -> FALSE
      [] v.k = "list"   -> \A i \in 1..Len(v.items) : Serializable(v.items[i])
      [] v.k = "dict"   -> \A i \in 1..Len(v.entries) : Serializable(v.entries[i][2])
      [] OTHER          -> TRUE

\* the escaping json.dumps applies inside a string literal (ensure_ascii)
EscapeRun(r) ==
    CASE r.c = "\"" -> Run("\\\"", r.n)
      [] r.c = "\\" -> Run("\\\\", r.n)
      [] OTHER      -> r

Escape(s) == [i \in 1..Len(s) |-> EscapeRun(s[i])]

DumpsStr(s) == Lit("\"") \o Escape(s) \o Lit("\"")

\* json.dumps(v, separators=(',', ':')) of a serializable value
RECURSIVE Dumps(_)
DumpsItems(items) ==
    Join([i \in 1..Len(items) |-> Dumps(items[i])], Lit(","), 1, Len(items))

DumpsEntries(entries) ==
    Join([i \in 1..Len(entries) |->
            DumpsStr(entries[i][1]) \o Lit(":") \o Dumps(entries[i][2])],
         Lit(","), 1, Len(entries))

Dumps(v) ==
    CASE v.k = "null" -> Lit("null")
      [] v.k = "bool" -> Lit(IF v.b THEN "true" ELSE "false")
      [] v.k = "int"  -> Lit(ToDecimal(v.i))
      [] v.k = "str"  -> DumpsStr(v.s)
      [] v.k = "list" -> Lit("[") \o DumpsItems(v.items) \o Lit("]")
      [] v.k = "dict" -> Lit("{") \o DumpsEntries(v.entries) \o Lit("}")

\* str(v) of Python for a scalar
PyStr(v) ==
    CASE v.k = "str"  -> v.s
      [] v.k = "int"  -> Lit(ToDecimal(v.i))
      [] v.k = "bool" -> Lit(IF v.b THEN "True" ELSE "False")
      [] OTHER        -> Lit("None")

(***************************************************************************)
(* safe_json_stringify                                                     *)
(***************************************************************************)
MAX_CELL_SIZE == 45000

TracklistCap == 20
CreditsCap == 30
ImagesCap == 3
FormatsCap == 2

Prefix(items, n) == SubSeq(items, 1, IF Len(items) < n THEN Len(items) ELSE n)

\* (mutation) the sentinel counts the whole list
TracklistSentinel_Total(dropped) ==
    JDict(<< <<Lit("position"), JStr(Lit("..."))>>,
            <<Lit("title"),
              JStr(Lit("...and " \o ToDecimal(dropped + TracklistCap)
                       \o " more tracks (truncated)"))>>,
            <<Lit("type_"), JStr(Lit("note"))>> >>)

TracklistSentinel(dropped) ==
    JDict(<< <<Lit("position"), JStr(Lit("..."))>>,
            <<Lit("title"),
              JStr(Lit("...and " \o ToDecimal(dropped) \o " more tracks (truncated)"))>>,
            <<Lit("type_"), JStr(Lit("note"))>> >>)

CreditsSentinel(dropped) ==
    JDict(<< <<Lit("name"),
              JStr(Lit("...and " \o ToDecimal(dropped) \o " more credits (truncated)"))>>,
            <<Lit("role"), JStr(Lit("note"))>> >>)

\* lines 54-90: the list that is serialized for an oversized list
TruncateList(items, field) ==
    LET n == Len(items) IN
    CASE field = "tracklist" ->
            IF n > TracklistCap
            THEN Append(Prefix(items, TracklistCap), TracklistSentinel(n - TracklistCap))
            ELSE items
      [] field = "credits" ->
            IF n > CreditsCap
            THEN Append(Prefix(items, CreditsCap), CreditsSentinel(n - CreditsCap))
            ELSE items
      [] field = "images"  -> IF n > ImagesCap THEN Prefix(items, ImagesCap) ELSE items
      [] field = "formats" -> IF n > FormatsCap THEN Prefix(items, FormatsCap) ELSE items
      [] OTHER             -> IF n > 1 THEN Prefix(items, n \div 2) ELSE items

\* (mutation) the list is shortened in place instead of sliced
Sliced_Never(items, field) == FALSE

\* lines 58, 69, 79, 84, 89: `data[:k] if len(data) > k else data` - truncated
\* is a new list when the slice is taken, and the list data itself otherwise
Sliced(items, field) ==
    LET n == Len(items) IN
    CASE field = "tracklist" -> n > TracklistCap
      [] field = "credits"   -> n > CreditsCap
      [] field = "images"    -> n > ImagesCap
      [] field = "formats"   -> n > FormatsCap
      [] OTHER               -> n > 1

\* lines 54-90: the caller's list object after the call - what was done to
\* truncated was done to it when truncated is that same object
DataAfter(v, field) ==
    IF v.k = "list" /\ ~Sliced(v.items, field)
    THEN JList(TruncateList(v.items, field))
    ELSE v

\* lines 98: len(test_json) > MAX_CELL_SIZE * 0.8
OverBuffer(len) == 10 * len > 8 * MAX_CELL_SIZE

\* lines 94-100: entries are added one by one; the loop breaks after the
\* addition that makes the accumulator exceed the buffer
RECURSIVE Essential(_, _)
Essential(entries, acc) ==
    IF entries = <<>> THEN acc
    ELSE LET next == Append(acc, Head(entries)) IN
         IF OverBuffer(StrLen(Dumps(JDict(next)))) THEN next
         ELSE Essential(Tail(entries), next)

TruncationMarker == "...(truncated)"

\* lines 104: str(data)[:MAX_CELL_SIZE - 20] + '...(truncated)'
TruncateScalar(v) == Take(PyStr(v), MAX_CELL_SIZE - 20) \o Lit(TruncationMarker)

\* lines 50-105: the value serialized when the full JSON is too large
Truncated(v, field) ==
    CASE v.k = "list" -> JList(TruncateList(v.items, field))
      [] v.k = "dict" -> JDict(Essential(v.entries, <<>>))
      [] OTHER        -> JStr(TruncateScalar(v))

SerializationError ==
    Lit("{\"error\": \"serialization failed: Object of type set is not JSON serializable\"}")

\* (mutation) the fit test with < in place of <=
Branch_StrictFit(v) ==
    IF ~Truthy(v) THEN "empty"
    ELSE IF ~Serializable(v) THEN "error"
    ELSE IF StrLen(Dumps(v)) < MAX_CELL_SIZE THEN "fits"
    ELSE "truncate"

\* which return statement of safe_json_stringify is taken
Branch(v) ==
    IF ~Truthy(v) THEN "empty"
    ELSE IF ~Serializable(v) THEN "error"
    ELSE IF StrLen(Dumps(v)) <= MAX_CELL_SIZE THEN "fits"
    ELSE "truncate"

\* lines 32-105: the returned string
safe_json_stringify(v, field) ==
    CASE Branch(v) = "empty" -> <<>>
      [] Branch(v) = "error" -> SerializationError
      [] Branch(v) = "fits"  -> Dumps(v)
      [] OTHER               -> Dumps(Truncated(v, field))

\* line 52: the counter moves on the truncation path only
TruncationIncrement(v) == IF Branch(v) = "truncate" THEN 1 ELSE 0

(***************************************************************************)
(* The destination: a worksheet is the sequence of its rows up to the last *)
(* row that holds a value (what get_all_values / values().get return).     *)
(* A row is identified by what it was made from.                           *)
(***************************************************************************)
HeaderRow == [kind |-> "header", id |-> 0]
BlankRow == [kind |-> "blank", id |-> 0]
StaleRow(n) == [kind |-> "stale", id |-> n]
\* the 17-cell row built from the album with ordering key a
AlbumRow(a) == [kind |-> "album", id |-> a]
HistoryRow(h) == [kind |-> "history", id |-> h]

Min(a, b) == IF a < b THEN a ELSE b
Max(a, b) == IF a > b THEN a ELSE b

\* rows up to the last non-blank one
RECURSIVE Trim(_)
Trim(rows) ==
    IF rows = <<>> THEN <<>>
    ELSE IF rows[Len(rows)] = BlankRow THEN Trim(SubSeq(rows, 1, Len(rows) - 1))
    ELSE rows

\* worksheet.get_all_values(): every row up to the last one holding a value
get_all_values(sheet) == sheet

\* worksheet.batch_clear(["A<lo>:Q<hi>"])
batch_clear(sheet, lo, hi) ==
    IF hi >= Len(sheet)
    THEN Trim(SubSeq(sheet, 1, Min(lo - 1, Len(sheet))))
    ELSE [j \in 1..Len(sheet) |-> IF lo <= j /\ j <= hi THEN BlankRow ELSE sheet[j]]

\* worksheet.update("A<start_row>:Q<end_row>", rows): absolute overwrite
update(sheet, start_row, rows) ==
    LET end_row == start_row + Len(rows) - 1
        n == Max(Len(sheet), end_row)
    IN  [j \in 1..n |->
            IF start_row <= j /\ j <= end_row THEN rows[j - start_row + 1]
            ELSE IF j <= Len(sheet) THEN sheet[j]
            ELSE BlankRow]

\* a remote write fails before it is applied ("fail") or after it ("lost":
\* the rows are stored but the call raises, e.g. a timeout of the response)
Applied(outcome) == outcome \in {"ok", "lost"}

Written(sheet, start_row, rows, outcome) ==
    IF Applied(outcome) THEN update(sheet, start_row, rows) ELSE sheet

ReadOutcomes == IF faults > 0 THEN {"ok", "fail"} ELSE {"ok"}
WriteOutcomes == IF faults > 0 THEN {"ok", "fail", "lost"} ELSE {"ok"}
Spend(outcome) == IF outcome = "ok" THEN faults ELSE faults - 1

\* one remote call: what was called, the offset or first row it names, the
\* number of records or rows it carries, and how it ended
Call(op, at, n, out) == [op |-> op, at |-> at, n |-> n, out |-> out]

\* line 323 (migrate_to_sheets.py line 290): end_row = start_row + len(chunk) - 1
end_row_of(start_row, n) == start_row + n - 1

\* a write call: n rows sent to the range of the rows start_row..end_row
WriteCall(op, start_row, end_row, n, out) ==
    [op |-> op, at |-> start_row, n |-> n, out |-> out, last |-> end_row]

\* time.sleep(ms / 1000), recorded among the calls
Sleep(ms) == Call("sleep", 0, ms, "ok")

\* the variables of the row builders while none is exercised
IdleRows ==
    /\ record = <<>>
    /\ builder = "none"
    /\ row = <<>>

\* the variables of the stores and of a run while only the encoder is exercised
IdleStores ==
    /\ src_albums = 0
    /\ src_history = 0
    /\ albums_sheet = <<HeaderRow>>
    /\ history_sheet = <<HeaderRow>>
    /\ faults = 0

IdleRun ==
    /\ pc = "idle"
    /\ total_albums = 0
    /\ history_data = 0
    /\ offset = 0
    /\ batch_albums = <<>>
    /\ loop_i = 0
    /\ imported_count = 0
    /\ albums = <<>>
    /\ verdict = "none"
    /\ failures = {}
    /\ requested = <<>>
    /\ fetched = <<>>
    /\ write_log = <<>>
    /\ reconciled = FALSE
    /\ run = 1
    /\ first_run = [before |-> <<albums_sheet, history_sheet>>, after |-> <<>>]
    /\ calls = <<>>

(***************************************************************************)
(* Bounded inputs of the encoder                                           *)
(***************************************************************************)
MaxListLen == 31
MaxDictLen == 4
MaxStrLen == 50000

Blob(c, n) == JStr(IF n = 0 THEN <<>> ELSE <<Run(c, n)>>)

\* one element of a tracklist / credits / images list
Element(i, size) ==
    JDict(<< <<Lit("position"), JStr(Lit(ToDecimal(i)))>>,
             <<Lit("title"), Blob("a", size)>> >>)

ListOf(n, size) == JList([i \in 1..n |-> Element(i, size)])

DictOf(n, size) ==
    JDict([i \in 1..n |-> <<Lit("k" \o ToDecimal(i)), Blob("a", size)>>])

ListLens == {n \in 0..MaxListLen : n <= 5 \/ n >= TracklistCap - 1}
ElemSizes == {8, 2000, 10000, MaxStrLen}
DictLens == 0..MaxDictLen
EntrySizes == {8, 20000, MaxStrLen}
StrLens == {0, 1, 22499, 22500, MAX_CELL_SIZE - 2, MAX_CELL_SIZE - 1, MaxStrLen}

Inputs ==
    {ListOf(n, s) : n \in ListLens, s \in ElemSizes}
    \cup {DictOf(n, s) : n \in DictLens, s \in EntrySizes}
    \cup {Blob(c, n) : c \in {"a", "\""}, n \in StrLens}
    \cup {JNull, JBool(TRUE), JBool(FALSE), JInt(0), JInt(7)}
    \cup {JOpaque, JList(<<Element(1, 8), JOpaque>>)}

Fields == {"tracklist", "credits", "images", "formats", "field"}

InitEnc ==
    /\ epc = "call"
    /\ data \in Inputs
    /\ field_name \in Fields
    /\ result = <<>>
    /\ truncation_count = 0
    /\ passed = data
    /\ IdleRows
    /\ IdleStores
    /\ IdleRun

\* one call self.safe_json_stringify(data, field_name)
Stringify ==
    /\ epc = "call"
    /\ epc' = "returned"
    /\ result' = safe_json_stringify(data, field_name)
    /\ truncation_count' = truncation_count + TruncationIncrement(data)
    /\ data' = (IF Branch(data) = "truncate" THEN DataAfter(data, field_name)
                ELSE data)
    /\ UNCHANGED <<field_name, passed, record, builder, row, storeVars, runVars,
                   obsVars>>

NextEnc == Stringify

SpecEnc == InitEnc /\ [][NextEnc]_vars

(***************************************************************************)
(* The row builders: process_album_for_sheets with the row list of         *)
(* import_albums_to_sheets, the history row of import_history_to_sheets,   *)
(* and album_to_row / history_to_row of migrate_to_sheets.py.              *)
(* A record maps each field name to its value, or to Missing when the      *)
(* record has no such key; a cell is the Python value put in the row.      *)
(***************************************************************************)
Missing == [k |-> "missing"]

EmptyStr == JStr(<<>>)

\* record.get(f, default)
Get(rec, f, default) == IF rec[f] = Missing THEN default ELSE rec[f]

\* str(v)
Str(v) == JStr(PyStr(v))

\* json.dumps(v) with the default separators ', ' and ': '
RECURSIVE DumpsSpaced(_)
DumpsSpaced(v) ==
    CASE v.k = "list" ->
            Lit("[")
            \o Join([i \in 1..Len(v.items) |-> DumpsSpaced(v.items[i])],
                    Lit(", "), 1, Len(v.items))
            \o Lit("]")
      [] v.k = "dict" ->
            Lit("{")
            \o Join([i \in 1..Len(v.entries) |->
                        DumpsStr(v.entries[i][1]) \o Lit(": ")
                        \o DumpsSpaced(v.entries[i][2])],
                    Lit(", "), 1, Len(v.entries))
            \o Lit("}")
      [] OTHER -> Dumps(v)

\* lines 180-190 of supabase_to_sheets.py: genres / styles
PipeJoined(v) ==
    IF v.k = "list"
    THEN (IF Truthy(v)
          THEN JStr(Join([i \in 1..Len(v.items) |-> v.items[i].s], Lit("|"),
                         1, Len(v.items)))
          ELSE EmptyStr)
    ELSE (IF Truthy(v) THEN Str(v) ELSE EmptyStr)

\* lines 193-210: formats / images / tracklist / credits
JsonCell(v, field) ==
    IF ~Truthy(v) THEN EmptyStr
    ELSE IF v.k \in {"list", "dict"} THEN JStr(safe_json_stringify(v, field))
    ELSE IF StrLen(PyStr(v)) > MAX_CELL_SIZE
         THEN JStr(Take(PyStr(v), MAX_CELL_SIZE - 20) \o Lit(TruncationMarker))
         ELSE Str(v)

\* lines 52 and 205: what one JSON field adds to truncation_count
JsonIncrement(v) ==
    IF ~Truthy(v) THEN 0
    ELSE IF v.k \in {"list", "dict"} THEN TruncationIncrement(v)
    ELSE IF StrLen(PyStr(v)) > MAX_CELL_SIZE THEN 1 ELSE 0

json_fields == <<"formats", "images", "tracklist", "credits">>

\* lines 167-219 and 304-311: the row made from one album
process_album_for_sheets(album) ==
    << Str(Get(album, "id", EmptyStr)),
       Get(album, "title", EmptyStr),
       Get(album, "year", EmptyStr),
       Get(album, "artist", EmptyStr),
       Get(album, "role", EmptyStr),
       Get(album, "type", EmptyStr),
       PipeJoined(Get(album, "genres", JList(<<>>))),
       PipeJoined(Get(album, "styles", JList(<<>>))),
       JsonCell(Get(album, "formats", JNull), "formats"),
       JsonCell(Get(album, "images", JNull), "images"),
       JsonCell(Get(album, "tracklist", JNull), "tracklist"),
       Get(album, "track_count", JInt(0)),
       JsonCell(Get(album, "credits", JNull), "credits"),
       Get(album, "cover_image", EmptyStr),
       Get(album, "formatted_year", EmptyStr),
       Get(album, "created_at", EmptyStr),
       Get(album, "updated_at", EmptyStr) >>

\* lines 361-375: the row made from one history record
history_row(rec) ==
    << Str(Get(rec, "id", EmptyStr)),
       Get(rec, "artist_name", EmptyStr),
       Str(Get(rec, "discogs_id", EmptyStr)),
       Get(rec, "search_query", EmptyStr),
       Get(rec, "scraped_at", EmptyStr),
       Get(rec, "albums_found", EmptyStr),
       Get(rec, "albums_added", EmptyStr),
       Get(rec, "success", EmptyStr),
       Get(rec, "notes", EmptyStr),
       Get(rec, "created_at", EmptyStr),
       Get(rec, "updated_at", EmptyStr) >>

\* migrate_to_sheets.py lines 170-175 and 202-205
albums_headers ==
    <<"id", "title", "year", "artist", "role", "type", "genres", "styles",
      "formats", "images", "tracklist", "track_count", "credits", "cover_image",
      "formatted_year", "created_at", "updated_at">>

history_headers ==
    <<"id", "artist_name", "discogs_artist_id", "scraped_at", "album_count", "status">>

\* migrate_to_sheets.py lines 230-237
safe_json(obj) ==
    IF obj = JNull THEN EmptyStr
    ELSE IF Serializable(obj) THEN JStr(DumpsSpaced(obj))
    ELSE Str(obj)

\* (mutation) a row with cells for the fields the record has
album_to_row_PresentOnly(album) ==
    SelectSeq([i \in 1..Len(albums_headers) |-> Get(album, albums_headers[i], EmptyStr)],
              LAMBDA c : c # EmptyStr)

\* migrate_to_sheets.py lines 228-257
album_to_row(album) ==
    << Str(Get(album, "id", EmptyStr)),
       Str(Get(album, "title", EmptyStr)),
       Str(Get(album, "year", EmptyStr)),
       Str(Get(album, "artist", EmptyStr)),
       Str(Get(album, "role", EmptyStr)),
       Str(Get(album, "type", JStr(Lit("release")))),
       safe_json(Get(album, "genres", JNull)),
       safe_json(Get(album, "styles", JNull)),
       safe_json(Get(album, "formats", JNull)),
       safe_json(Get(album, "images", JNull)),
       safe_json(Get(album, "tracklist", JNull)),
       Str(Get(album, "track_count", JInt(0))),
       safe_json(Get(album, "credits", JNull)),
       Str(Get(album, "cover_image", EmptyStr)),
       Str(Get(album, "formatted_year", EmptyStr)),
       Str(Get(album, "created_at", EmptyStr)),
       Str(Get(album, "updated_at", EmptyStr)) >>

\* migrate_to_sheets.py lines 259-268
history_to_row(history) ==
    << Str(Get(history, "id", EmptyStr)),
       Str(Get(history, "artist_name", EmptyStr)),
       Str(Get(history, "discogs_artist_id", EmptyStr)),
       Str(Get(history, "scraped_at", EmptyStr)),
       Str(Get(history, "album_count", JInt(0))),
       Str(Get(history, "status", EmptyStr)) >>

\* lines 192-206: what process_album_for_sheets adds to truncation_count
RowIncrement(album) ==
    JsonIncrement(Get(album, json_fields[1], JNull))
        + JsonIncrement(Get(album, json_fields[2], JNull))
        + JsonIncrement(Get(album, json_fields[3], JNull))
        + JsonIncrement(Get(album, json_fields[4], JNull))

\* the four builders
ProcessAlbum ==
    /\ epc = "record"
    /\ epc' = "built"
    /\ builder' = "process_album_for_sheets"
    /\ row' = process_album_for_sheets(record)
    /\ truncation_count' = truncation_count + RowIncrement(record)
    /\ UNCHANGED <<data, field_name, result, passed, record, storeVars, runVars,
                   obsVars>>

HistoryRowOf ==
    /\ epc = "record"
    /\ epc' = "built"
    /\ builder' = "history_row"
    /\ row' = history_row(record)
    /\ UNCHANGED <<data, field_name, result, truncation_count, passed, record,
                   storeVars, runVars, obsVars>>

AlbumToRow ==
    /\ epc = "record"
    /\ epc' = "built"
    /\ builder' = "album_to_row"
    /\ row' = album_to_row(record)
    /\ UNCHANGED <<data, field_name, result, truncation_count, passed, record,
                   storeVars, runVars, obsVars>>

HistoryToRow ==
    /\ epc = "record"
    /\ epc' = "built"
    /\ builder' = "history_to_row"
    /\ row' = history_to_row(record)
    /\ UNCHANGED <<data, field_name, result, truncation_count, passed, record,
                   storeVars, runVars, obsVars>>

\* records: every field present, every field missing, every field null, and
\* the records that lack one field or hold null in one field
AllFields ==
    {albums_headers[i] : i \in 1..Len(albums_headers)}
        \cup {history_headers[i] : i \in 1..Len(history_headers)}
        \cup {"discogs_id", "search_query", "albums_found", "albums_added",
              "success", "notes"}

SampleValue(f) ==
    CASE f \in {"id", "year", "track_count", "discogs_id", "discogs_artist_id",
                "albums_found", "albums_added", "album_count"} -> JInt(7)
      [] f \in {"genres", "styles"} -> JList(<<JStr(Lit("Jazz")), JStr(Lit("Hard Bop"))>>)
      [] f \in {"formats", "images", "tracklist", "credits"} -> ListOf(2, 8)
      [] f = "success" -> JBool(TRUE)
      [] OTHER -> JStr(Lit("x"))

FullRecord == [f \in AllFields |-> SampleValue(f)]

Records ==
    {FullRecord, [f \in AllFields |-> Missing], [f \in AllFields |-> JNull]}
        \cup {[FullRecord EXCEPT ![f] = v] : f \in AllFields, v \in {Missing, JNull}}

InitRow ==
    /\ epc = "record"
    /\ data = JNull
    /\ field_name = "field"
    /\ result = <<>>
    /\ truncation_count = 0
    /\ passed = JNull
    /\ record \in Records
    /\ builder = "none"
    /\ row = <<>>
    /\ IdleStores
    /\ IdleRun

NextRow ==
    \/ ProcessAlbum
    \/ HistoryRowOf
    \/ AlbumToRow
    \/ HistoryToRow

SpecRow == InitRow /\ [][NextRow]_vars

(***************************************************************************)
(* scripts/supabase_to_sheets.py: SupabaseToSheetsImporter.run_migration   *)
(***************************************************************************)
batch_size == 300
sheets_batch_size == 50
history_batch_size == 50

MaxFaults == 2
MaxAlbums == 301
MaxHistory == 51
MaxStale == 3

\* (mutation) the range end taken one too far
Page_Inclusive(off, size) == [j \in 1..Max(0, Min(size + 1, src_albums - off)) |-> off + j]

\* .range(offset, offset + batch_size - 1).order('id'): the records at
\* positions offset .. offset + size - 1 of the id ordering
Page(off, size) == [j \in 1..Max(0, Min(size, src_albums - off)) |-> off + j]

\* the source record with the given id: every 51st album has a tracklist of
\* 25 tracks of 2,000 characters, more than a cell holds
AlbumRecord(id) ==
    [FullRecord EXCEPT !["id"] = JInt(id),
                       !["tracklist"] = IF id % (sheets_batch_size + 1) = 0
                                        THEN ListOf(TracklistCap + 5, 2000)
                                        ELSE ListOf(2, 8)]

\* lines 298-312: what processing the records of a page adds to
\* self.truncation_count
row_increments == [id \in 1..MaxAlbums |-> RowIncrement(AlbumRecord(id))]

RECURSIVE PageIncrement(_, _, _)
PageIncrement(page, lo, hi) ==
    IF lo > hi THEN 0
    ELSE IF lo = hi THEN row_increments[page[lo]]
    ELSE LET mid == (lo + hi) \div 2 IN
         PageIncrement(page, lo, mid) + PageIncrement(page, mid + 1, hi)

\* rows[k : k + size]
Chunk(rows, k, size) == SubSeq(rows, k + 1, Min(k + size, Len(rows)))

\* for offset in range(0, total_albums, batch_size): the next iteration, or
\* the statement after the loop
LoopPc(off, total) == IF off < total THEN "page" ELSE "import_history"

\* (mutation) the header row forgotten
start_row_NoHeader(count) == count + 1

\* start_row = imported_count + 2
start_row_of(count) == count + 2

Fail(kind) == failures' = failures \cup {kind}

\* lines 107-142
SetupConnections ==
    /\ pc = "connect"
    /\ \E o \in ReadOutcomes :
         /\ faults' = Spend(o)
         /\ IF o = "ok"
            THEN pc' = "count" /\ verdict' = verdict /\ failures' = failures
            ELSE pc' = "done" /\ verdict' = "False" /\ Fail("connect")
    /\ UNCHANGED <<encVars, src_albums, src_history, albums_sheet, history_sheet,
                   total_albums, history_data, offset, batch_albums, loop_i,
                   imported_count, albums, requested, fetched, write_log,
                   reconciled, run, first_run, calls>>

\* lines 144-151 and 443: a failed count query yields 0
GetTotalCount ==
    /\ pc = "count"
    /\ \E o \in ReadOutcomes :
         /\ faults' = Spend(o)
         /\ total_albums' = (IF o = "ok" THEN src_albums ELSE 0)
         /\ failures' = (IF o = "ok" THEN failures ELSE failures \cup {"count"})
    /\ pc' = "export_history"
    /\ UNCHANGED <<encVars, src_albums, src_history, albums_sheet, history_sheet,
                   history_data, offset, batch_albums, loop_i, imported_count,
                   albums, verdict, requested, fetched, write_log, reconciled,
                   run, first_run, calls>>

\* lines 221-230 and 446: a failed export yields []
ExportScrapedHistory ==
    /\ pc = "export_history"
    /\ \E o \in ReadOutcomes :
         /\ faults' = Spend(o)
         /\ history_data' = (IF o = "ok" THEN src_history ELSE 0)
         /\ failures' = (IF o = "ok" THEN failures ELSE failures \cup {"history_export"})
    /\ pc' = "setup"
    /\ UNCHANGED <<encVars, src_albums, src_history, albums_sheet, history_sheet,
                   total_albums, offset, batch_albums, loop_i, imported_count,
                   albums, verdict, requested, fetched, write_log, reconciled,
                   run, first_run, calls>>

\* (mutation) the data rows of the earlier load left in place
ClearDataRows_Keep(sheet) == sheet

\* lines 244-248 / 261-265: clear row 2 .. last row when there are data rows
ClearDataRows(sheet) ==
    IF Len(get_all_values(sheet)) > 1
    THEN batch_clear(sheet, 2, Len(get_all_values(sheet)))
    ELSE sheet

SetupOutcomes == IF faults > 0 THEN {"ok", "albums_fail", "history_fail"} ELSE {"ok"}

\* the batch_clear call of lines 247-248 / 264-265, made when there are data rows
ClearCalls(op, sheet) ==
    IF Len(get_all_values(sheet)) > 1
    THEN <<Call(op, 2, Len(get_all_values(sheet)) - 1, "ok")>>
    ELSE <<>>

\* (mutation) the import started although a sheet could not be prepared
AfterSetupPc_Ignore(o, next) == next

\* lines 451-453 (and, in migrate_to_sheets.py, the raise of lines 194-196 /
\* 224-226 caught at 514-516): the run goes on only when both sheets are ready
AfterSetupPc(o, next) == IF o = "ok" THEN next ELSE "done"

\* lines 232-277 and 449-453, with the loop header of line 289
SetupGoogleSheets ==
    /\ pc = "setup"
    /\ \E o \in SetupOutcomes :
         /\ faults' = Spend(o)
         /\ albums_sheet' = (IF o = "albums_fail" THEN albums_sheet
                             ELSE ClearDataRows(albums_sheet))
         /\ history_sheet' = (IF o = "ok" THEN ClearDataRows(history_sheet)
                              ELSE history_sheet)
         /\ calls' = calls
                \o (IF o = "albums_fail" THEN <<>>
                    ELSE ClearCalls("clear_albums", albums_sheet))
                \o (IF o = "ok" THEN ClearCalls("clear_history", history_sheet)
                    ELSE <<>>)
         /\ pc' = AfterSetupPc(o, LoopPc(0, total_albums))
         /\ IF o = "ok"
            THEN /\ verdict' = verdict
                 /\ failures' = failures
            ELSE /\ verdict' = "False"
                 /\ Fail("setup")
    /\ offset' = 0
    /\ imported_count' = 0
    /\ UNCHANGED <<encVars, src_albums, src_history, total_albums, history_data,
                   batch_albums, loop_i, albums, requested, fetched, write_log,
                   reconciled, run, first_run>>

\* (mutation) a page whose fetch failed is asked for again
NextOffset_Retry(off, o) == IF o = "ok" THEN off + batch_size ELSE off

\* line 289: the element of range(0, total_albums, batch_size) after off,
\* whatever became of the page at off
NextOffset(off, o) == off + batch_size

\* lines 153-165 and 289-293: one page request; an empty or failed page is
\* skipped with `continue`
ExportAlbumsBatch ==
    /\ pc = "page"
    /\ \E o \in ReadOutcomes :
         LET page == IF o = "ok" THEN Page(offset, batch_size) ELSE <<>> IN
         /\ faults' = Spend(o)
         /\ failures' = (IF o = "ok" THEN failures ELSE failures \cup {"page"})
         /\ requested' = Append(requested, offset)
         /\ fetched' = fetched \o page
         /\ calls' = Append(calls, Call("fetch", offset, Len(page), o))
         /\ truncation_count' = truncation_count + PageIncrement(page, 1, Len(page))
         /\ IF page = <<>>
            THEN /\ offset' = NextOffset(offset, o)
                 /\ pc' = LoopPc(NextOffset(offset, o), total_albums)
                 /\ batch_albums' = <<>>
            ELSE /\ offset' = offset
                 /\ pc' = "chunk"
                 /\ batch_albums' = page
    /\ loop_i' = 0
    /\ UNCHANGED <<epc, data, field_name, result, passed, record, builder, row,
                   src_albums, src_history, albums_sheet, history_sheet,
                   total_albums, history_data, imported_count, albums, verdict,
                   write_log, reconciled, run, first_run>>

\* line 334: time.sleep(2), reached when update returned
ChunkPause(o) == IF o = "ok" THEN <<Sleep(2000)>> ELSE <<>>

\* line 342: time.sleep(3) at the end of a page that had records
PagePause == <<Sleep(3000)>>

\* lines 320-342: one chunk of the page is written once; after the last
\* chunk of the page the page loop advances
WriteChunk ==
    /\ pc = "chunk"
    /\ LET chunk == Chunk(batch_albums, loop_i, sheets_batch_size)
           start_row == start_row_of(imported_count)
           next_i == loop_i + sheets_batch_size
       IN
       /\ \E o \in WriteOutcomes :
            /\ faults' = Spend(o)
            /\ failures' = (IF o = "ok" THEN failures ELSE failures \cup {"chunk"})
            /\ albums_sheet' = Written(albums_sheet, start_row,
                                       [j \in 1..Len(chunk) |-> AlbumRow(chunk[j])], o)
            /\ imported_count' = (IF o = "ok" THEN imported_count + Len(chunk)
                                  ELSE imported_count)
            /\ write_log' = Append(write_log,
                                   [row |-> start_row, first |-> chunk[1],
                                    n |-> Len(chunk), outcome |-> o])
            /\ calls' = Append(calls, WriteCall("write_albums", start_row,
                                              end_row_of(start_row, Len(chunk)),
                                              Len(chunk), o))
                          \o ChunkPause(o)
                          \o (IF next_i < Len(batch_albums) THEN <<>> ELSE PagePause)
       /\ IF next_i < Len(batch_albums)
          THEN /\ loop_i' = next_i
               /\ pc' = "chunk"
               /\ UNCHANGED <<offset, batch_albums>>
          ELSE /\ loop_i' = 0
               /\ offset' = NextOffset(offset, "ok")
               /\ pc' = LoopPc(NextOffset(offset, "ok"), total_albums)
               /\ batch_albums' = <<>>
    /\ UNCHANGED <<encVars, src_albums, src_history, history_sheet, total_albums,
                   history_data, albums, verdict, requested, fetched, reconciled,
                   run, first_run>>

\* number of calls history_sheet.update makes for n rows
HistoryChunks(n) == (n + history_batch_size - 1) \div history_batch_size

\* lines 380-386: the write of the batch history_rows[i : i + batch_size]
HistoryWrite(i, total, out) ==
    LET n == Min(history_batch_size, total - i) IN
    WriteCall("write_history", i + 2, end_row_of(i + 2, n), n, out)

\* lines 352-393 and 463, 477-479: the history rows are written chunk by
\* chunk with no handler, so the first failing write ends the run
ImportHistory ==
    /\ pc = "import_history"
    /\ \E done \in 0..HistoryChunks(history_data) :
         LET rows == Min(done * history_batch_size, history_data)
             complete == done = HistoryChunks(history_data)
         IN
         /\ complete \/ faults > 0
         /\ history_sheet' =
                (IF rows = 0 THEN history_sheet
                 ELSE update(history_sheet, 2, [j \in 1..rows |-> HistoryRow(j)]))
         /\ calls' = calls
                \o [k \in 1..(2 * done) |->
                       IF k % 2 = 1
                       THEN HistoryWrite((k \div 2) * history_batch_size,
                                         history_data, "ok")
                       ELSE Sleep(1000)]
                \o (IF complete THEN <<>>
                    ELSE <<HistoryWrite(done * history_batch_size, history_data,
                                        "fail")>>)
         /\ IF complete
            THEN /\ pc' = "verify"
                 /\ UNCHANGED <<verdict, failures, faults>>
            ELSE /\ pc' = "done"
                 /\ verdict' = "False"
                 /\ Fail("history_import")
                 /\ faults' = faults - 1
    /\ UNCHANGED <<encVars, src_albums, src_history, albums_sheet, total_albums,
                   history_data, offset, batch_albums, loop_i, imported_count,
                   albums, requested, fetched, write_log, reconciled, run, first_run>>

\* (mutation) the history count left out of the comparison
verify_import_AlbumsOnly(expected_albums, expected_history, read_ok) ==
    /\ read_ok
    /\ Len(get_all_values(albums_sheet)) - 1 = expected_albums

\* lines 395-428: verify_import(albums_sheet, history_sheet, expected_albums,
\* expected_history); read_ok is FALSE when get_all_values raises
verify_import(expected_albums, expected_history, read_ok) ==
    /\ read_ok
    /\ Len(get_all_values(albums_sheet)) - 1 = expected_albums
    /\ Len(get_all_values(history_sheet)) - 1 = expected_history

\* (mutation) a run with a failed chunk write is never reported as a success
Verdict_NoChunkFailed(ok) == IF ok /\ "chunk" \notin failures THEN "True" ELSE "False"

\* (mutation) the else branch falls off the end of run_migration
Verdict_Missing(ok) == IF ok THEN "True" ELSE "none"

\* lines 466-475 (migrate_to_sheets.py: 498-512): return True when the
\* reconciliation passed, False otherwise
Verdict(ok) == IF ok THEN "True" ELSE "False"

\* lines 465-475
VerifyImport ==
    /\ pc = "verify"
    /\ \E o \in ReadOutcomes :
         /\ faults' = Spend(o)
         /\ failures' = (IF o = "ok" THEN failures ELSE failures \cup {"verify"})
         /\ verdict' = Verdict(verify_import(total_albums, history_data, o = "ok"))
    /\ reconciled' = TRUE
    /\ pc' = "done"
    /\ UNCHANGED <<encVars, src_albums, src_history, albums_sheet, history_sheet,
                   total_albums, history_data, offset, batch_albums, loop_i,
                   imported_count, albums, requested, fetched, write_log, run,
                   first_run, calls>>

Stale(n) == [j \in 1..n |-> StaleRow(j)]

AlbumCounts == {0, 1, sheets_batch_size, sheets_batch_size + 1, batch_size, MaxAlbums}

\* both worksheets exist with their header row (the script's documented
\* precondition) and may hold the data rows of an earlier load
InitStores ==
    /\ src_albums \in AlbumCounts
    /\ src_history \in {0, MaxHistory}
    /\ albums_sheet \in {<<HeaderRow>> \o Stale(n) : n \in {0, MaxStale}}
    /\ history_sheet \in {<<HeaderRow>> \o Stale(n) : n \in {0, 1}}

InitObs ==
    /\ failures = {}
    /\ requested = <<>>
    /\ fetched = <<>>
    /\ write_log = <<>>
    /\ reconciled = FALSE
    /\ run = 1
    /\ first_run = [before |-> <<albums_sheet, history_sheet>>, after |-> <<>>]
    /\ calls = <<>>

InitEncIdle ==
    /\ epc = "idle"
    /\ data = JNull
    /\ field_name = "field"
    /\ result = <<>>
    /\ truncation_count = 0
    /\ passed = JNull
    /\ IdleRows

\* lines 26-30 and 517-518: a fresh importer about to run
InitRun ==
    /\ pc = "connect"
    /\ total_albums = 0
    /\ history_data = 0
    /\ offset = 0
    /\ batch_albums = <<>>
    /\ loop_i = 0
    /\ imported_count = 0
    /\ albums = <<>>
    /\ verdict = "none"

Init ==
    /\ InitEncIdle
    /\ InitStores
    /\ faults = MaxFaults
    /\ InitRun
    /\ InitObs

Next ==
    \/ SetupConnections
    \/ GetTotalCount
    \/ ExportScrapedHistory
    \/ SetupGoogleSheets
    \/ ExportAlbumsBatch
    \/ WriteChunk
    \/ ImportHistory
    \/ VerifyImport

Spec == Init /\ [][Next]_vars

\* lines 517-518 run again: a new importer object, the stores as the first
\* run left them
Restart ==
    /\ pc = "done"
    /\ run = 1
    /\ run' = 2
    /\ first_run' = [first_run EXCEPT !.after = <<albums_sheet, history_sheet>>]
    /\ pc' = "connect"
    /\ total_albums' = 0
    /\ history_data' = 0
    /\ offset' = 0
    /\ batch_albums' = <<>>
    /\ loop_i' = 0
    /\ imported_count' = 0
    /\ verdict' = "none"
    /\ requested' = <<>>
    /\ fetched' = <<>>
    /\ write_log' = <<>>
    /\ reconciled' = FALSE
    /\ calls' = <<>>
    /\ truncation_count' = 0
    /\ UNCHANGED <<epc, data, field_name, result, passed, record, builder, row,
                   storeVars, albums, failures>>

InitTwice ==
    /\ InitEncIdle
    /\ InitStores
    /\ faults = 0
    /\ InitRun
    /\ InitObs

NextTwice == Next \/ Restart

SpecTwice == InitTwice /\ [][NextTwice]_vars

\* run_migration called once more on the same importer object: the locals
\* of the call are new, self.truncation_count is the attribute set in
\* __init__ (line 30) and by safe_json_stringify only
RunAgain ==
    /\ pc = "done"
    /\ run = 1
    /\ run' = 2
    /\ first_run' = [first_run EXCEPT !.after = <<albums_sheet, history_sheet>>]
    /\ pc' = "connect"
    /\ total_albums' = 0
    /\ history_data' = 0
    /\ offset' = 0
    /\ batch_albums' = <<>>
    /\ loop_i' = 0
    /\ imported_count' = 0
    /\ verdict' = "none"
    /\ requested' = <<>>
    /\ fetched' = <<>>
    /\ write_log' = <<>>
    /\ reconciled' = FALSE
    /\ calls' = <<>>
    /\ UNCHANGED <<encVars, storeVars, albums, failures>>

NextAgain == Next \/ RunAgain

SpecAgain == Init /\ [][NextAgain]_vars

(***************************************************************************)
(* migrate_to_sheets.py: run_migration with SupabaseExporter,              *)
(* GoogleSheetsImporter and MigrationValidator                             *)
(***************************************************************************)
BATCH_SIZE == 50
RATE_LIMIT_DELAY == 2
export_batch_size == 1000
sample_size == 5

\* for i in range(0, total_albums, BATCH_SIZE): the next iteration, or the
\* statement after the loop
MigLoopPc(k, total) == IF k < total THEN "m_batch" ELSE "m_import_history"

\* start_row = i + 2
MigStartRow(k) == k + 2

\* (mutation) the count moved before the write call
Counted_Always(count, n, outcome) == count + n

\* imported_count += len(batch), reached only when execute() returned
Counted(count, n, outcome) == IF outcome = "ok" THEN count + n ELSE count

\* (mutation) the retry repeated until it succeeds
AfterRetryPc_Again(outcome, k, total) ==
    IF outcome = "ok" THEN MigLoopPc(k, total) ELSE "m_retry"

\* (mutation) a failed retry ends the import
AfterRetryPc_Abort(outcome, k, total) ==
    IF outcome = "ok" THEN MigLoopPc(k, total) ELSE "done"

\* lines 317-331: after the retry, failed or not, the loop goes on
AfterRetryPc(outcome, k, total) == MigLoopPc(k, total)

\* lines 448-460: the three connection checks
MigTestConnections ==
    /\ pc = "m_connect"
    /\ \E o \in ReadOutcomes :
         /\ faults' = Spend(o)
         /\ IF o = "ok"
            THEN pc' = "m_export" /\ verdict' = verdict /\ failures' = failures
            ELSE pc' = "done" /\ verdict' = "False" /\ Fail("connect")
    /\ UNCHANGED <<encVars, src_albums, src_history, albums_sheet, history_sheet,
                   total_albums, history_data, offset, batch_albums, loop_i,
                   imported_count, albums, requested, fetched, write_log,
                   reconciled, run, first_run, calls>>

\* lines 87-113: one iteration of the while loop of export_albums_in_batches;
\* an empty page or an error breaks the loop
MigExportPage ==
    /\ pc = "m_export"
    /\ \E o \in ReadOutcomes :
         LET page == IF o = "ok" THEN Page(offset, export_batch_size) ELSE <<>> IN
         /\ faults' = Spend(o)
         /\ failures' = (IF o = "ok" THEN failures ELSE failures \cup {"page"})
         /\ requested' = Append(requested, offset)
         /\ fetched' = fetched \o page
         /\ albums' = albums \o page
         /\ calls' = Append(calls, Call("fetch", offset, Len(page), o))
                       \o (IF page = <<>> THEN <<>> ELSE <<Sleep(500)>>)
         /\ IF page = <<>>
            THEN offset' = offset /\ pc' = "m_export_history"
            ELSE offset' = offset + export_batch_size /\ pc' = "m_export"
    /\ UNCHANGED <<encVars, src_albums, src_history, albums_sheet, history_sheet,
                   total_albums, history_data, batch_albums, loop_i,
                   imported_count, verdict, write_log, reconciled, run, first_run>>

\* (mutation) the setup is reached whatever was exported
AfterExportPc_Always(exported) == "m_setup"

\* lines 470-472: if not albums: return False
AfterExportPc(exported) == IF exported = <<>> THEN "done" ELSE "m_setup"

\* lines 116-128 and 468-472: the history export, then the run stops when no
\* album was exported
MigExportHistory ==
    /\ pc = "m_export_history"
    /\ \E o \in ReadOutcomes :
         /\ faults' = Spend(o)
         /\ history_data' = (IF o = "ok" THEN src_history ELSE 0)
         /\ failures' = (IF o = "ok" THEN failures ELSE failures \cup {"history_export"})
    /\ pc' = AfterExportPc(albums)
    /\ verdict' = (IF albums = <<>> THEN "False" ELSE verdict)
    /\ UNCHANGED <<encVars, src_albums, src_history, albums_sheet, history_sheet,
                   total_albums, offset, batch_albums, loop_i, imported_count,
                   albums, requested, fetched, write_log, reconciled, run, first_run, calls>>

MigSetupOutcomes ==
    IF faults > 0
    THEN {"ok", "albums_clear", "albums_header", "history_clear", "history_header"}
    ELSE {"ok"}

\* the values().clear and values().update calls of lines 179-190 and 209-220
\* up to and including the one that raised
MigSetupCalls(o) ==
    LET all == <<Call("clear_albums", 1, Len(albums_sheet),
                      IF o = "albums_clear" THEN "fail" ELSE "ok"),
                 Call("header_albums", 1, 1,
                      IF o = "albums_header" THEN "fail" ELSE "ok"),
                 Call("clear_history", 1, Len(history_sheet),
                      IF o = "history_clear" THEN "fail" ELSE "ok"),
                 Call("header_history", 1, 1,
                      IF o = "history_header" THEN "fail" ELSE "ok")>>
        last == CASE o = "albums_clear"   -> 1
                  [] o = "albums_header"  -> 2
                  [] o = "history_clear"  -> 3
                  [] OTHER                -> 4
    IN  SubSeq(all, 1, last)

\* lines 166-226 and 479-480, 514-516: each sheet is cleared (A:Z) and given
\* its header; the outcome names the call that raised
MigSetupSheets ==
    /\ pc = "m_setup"
    /\ \E o \in MigSetupOutcomes :
         /\ faults' = Spend(o)
         /\ albums_sheet' = (CASE o = "albums_clear"  -> albums_sheet
                               [] o = "albums_header" -> <<>>
                               [] OTHER               -> <<HeaderRow>>)
         /\ history_sheet' = (CASE o \in {"albums_clear", "albums_header", "history_clear"}
                                                       -> history_sheet
                                [] o = "history_header" -> <<>>
                                [] OTHER                -> <<HeaderRow>>)
         /\ calls' = calls \o MigSetupCalls(o)
         /\ pc' = AfterSetupPc(o, MigLoopPc(0, Len(albums)))
         /\ IF o = "ok"
            THEN /\ verdict' = verdict
                 /\ failures' = failures
            ELSE /\ verdict' = "False"
                 /\ Fail("setup")
    /\ total_albums' = Len(albums)
    /\ imported_count' = 0
    /\ loop_i' = 0
    /\ UNCHANGED <<encVars, src_albums, src_history, history_data, offset,
                   batch_albums, albums, requested, fetched, write_log,
                   reconciled, run, first_run>>

\* lines 307-310 and 315: RATE_LIMIT_DELAY after a batch that is not the
\* last, 5 seconds before the retry of a batch whose write raised
BatchPause(o, k, total) ==
    IF o = "ok"
    THEN (IF k + BATCH_SIZE < total THEN <<Sleep(RATE_LIMIT_DELAY * 1000)>> ELSE <<>>)
    ELSE <<Sleep(5000)>>

\* lines 277-311: the first write of the batch albums[i : i + BATCH_SIZE]
MigWriteBatch ==
    /\ pc = "m_batch"
    /\ LET batch == Chunk(albums, loop_i, BATCH_SIZE)
           start_row == MigStartRow(loop_i)
       IN
       /\ \E o \in WriteOutcomes :
            /\ faults' = Spend(o)
            /\ failures' = (IF o = "ok" THEN failures ELSE failures \cup {"chunk"})
            /\ albums_sheet' = Written(albums_sheet, start_row,
                                       [j \in 1..Len(batch) |-> AlbumRow(batch[j])], o)
            /\ imported_count' = Counted(imported_count, Len(batch), o)
            /\ write_log' = Append(write_log,
                                   [row |-> start_row, first |-> batch[1],
                                    n |-> Len(batch), outcome |-> o])
            /\ calls' = Append(calls, WriteCall("write_albums", start_row,
                                              end_row_of(start_row, Len(batch)),
                                              Len(batch), o))
                          \o BatchPause(o, loop_i, total_albums)
            /\ IF o = "ok"
               THEN /\ loop_i' = loop_i + BATCH_SIZE
                    /\ pc' = MigLoopPc(loop_i + BATCH_SIZE, total_albums)
                    /\ batch_albums' = <<>>
               ELSE /\ loop_i' = loop_i
                    /\ pc' = "m_retry"
                    /\ batch_albums' = batch
    /\ UNCHANGED <<encVars, src_albums, src_history, history_sheet, total_albums,
                   history_data, offset, albums, verdict, requested, fetched,
                   reconciled, run, first_run>>

\* lines 312-331: the except branch - the same range_name and rows are sent
\* once more, and the loop goes on whatever the result
MigRetryBatch ==
    /\ pc = "m_retry"
    /\ LET start_row == MigStartRow(loop_i) IN
       \E o \in WriteOutcomes :
            /\ faults' = Spend(o)
            /\ failures' = (IF o = "ok" THEN failures ELSE failures \cup {"chunk"})
            /\ albums_sheet' = Written(albums_sheet, start_row,
                                       [j \in 1..Len(batch_albums) |->
                                            AlbumRow(batch_albums[j])], o)
            /\ imported_count' = Counted(imported_count, Len(batch_albums), o)
            /\ write_log' = Append(write_log,
                                   [row |-> start_row, first |-> batch_albums[1],
                                    n |-> Len(batch_albums), outcome |-> o])
            /\ calls' = Append(calls, WriteCall("write_albums", start_row,
                                  end_row_of(start_row, Len(batch_albums)),
                                  Len(batch_albums), o))
            /\ pc' = AfterRetryPc(o, loop_i + BATCH_SIZE, total_albums)
            /\ IF pc' = "m_retry"
               THEN UNCHANGED <<loop_i, batch_albums>>
               ELSE loop_i' = loop_i + BATCH_SIZE /\ batch_albums' = <<>>
    /\ UNCHANGED <<encVars, src_albums, src_history, history_sheet, total_albums,
                   history_data, offset, albums, verdict, requested, fetched,
                   reconciled, run, first_run>>

\* lines 335-359: all history rows in one write; an error is caught
MigImportHistory ==
    /\ pc = "m_import_history"
    /\ IF history_data = 0
       THEN UNCHANGED <<history_sheet, faults, failures, calls>>
       ELSE \E o \in WriteOutcomes :
              /\ faults' = Spend(o)
              /\ calls' = Append(calls, WriteCall("write_history", 2, history_data + 1,
                                              history_data, o))
              /\ failures' = (IF o = "ok" THEN failures
                              ELSE failures \cup {"history_import"})
              /\ history_sheet' = Written(history_sheet, 2,
                                          [j \in 1..history_data |-> HistoryRow(j)], o)
    /\ pc' = "m_validate"
    /\ UNCHANGED <<encVars, src_albums, src_history, albums_sheet, total_albums,
                   history_data, offset, batch_albums, loop_i, imported_count,
                   albums, verdict, requested, fetched, write_log, reconciled,
                   run, first_run>>

\* lines 369-396: len(values of Albums!A:A) - 1 against len(exporter.albums)
validate_albums_count(read_ok) ==
    /\ read_ok
    /\ Len(albums) = Len(get_all_values(albums_sheet)) - 1

\* lines 398-429: the values of Albums!A2:Q<sample_size + 1>, rows after the
\* last one holding a value left out; a blank row among them raises IndexError
validate_sample_data(read_ok) ==
    LET rows == Trim(SubSeq(albums_sheet, 2, Min(sample_size + 1, Len(albums_sheet))))
    IN  /\ read_ok
        /\ \A j \in 1..Min(Len(rows), Len(albums)) : rows[j] = AlbumRow(albums[j])

\* lines 493-512
MigValidate ==
    /\ pc = "m_validate"
    /\ \E o \in ReadOutcomes :
         /\ faults' = Spend(o)
         /\ failures' = (IF o = "ok" THEN failures ELSE failures \cup {"verify"})
         /\ verdict' = Verdict(validate_albums_count(o = "ok")
                                /\ validate_sample_data(o = "ok"))
    /\ reconciled' = TRUE
    /\ pc' = "done"
    /\ UNCHANGED <<encVars, src_albums, src_history, albums_sheet, history_sheet,
                   total_albums, history_data, offset, batch_albums, loop_i,
                   imported_count, albums, requested, fetched, write_log, run,
                   first_run, calls>>

\* lines 444-445
InitRunMig ==
    /\ pc = "m_connect"
    /\ total_albums = 0
    /\ history_data = 0
    /\ offset = 0
    /\ batch_albums = <<>>
    /\ loop_i = 0
    /\ imported_count = 0
    /\ albums = <<>>
    /\ verdict = "none"

InitMig ==
    /\ InitEncIdle
    /\ InitStores
    /\ faults = MaxFaults
    /\ InitRunMig
    /\ InitObs

NextMig ==
    \/ MigTestConnections
    \/ MigExportPage
    \/ MigExportHistory
    \/ MigSetupSheets
    \/ MigWriteBatch
    \/ MigRetryBatch
    \/ MigImportHistory
    \/ MigValidate

SpecMig == InitMig /\ [][NextMig]_vars

\* either pipeline, chosen at the start
InitBoth ==
    /\ InitEncIdle
    /\ InitStores
    /\ faults = MaxFaults
    /\ (InitRun \/ InitRunMig)
    /\ InitObs

NextBoth == Next \/ NextMig

SpecBoth == InitBoth /\ [][NextBoth]_vars

\* either pipeline on an empty, a two-chunk and a two-page source
InitFair ==
    /\ InitEncIdle
    /\ src_albums \in {0, sheets_batch_size + 1, MaxAlbums}
    /\ src_history \in {0, MaxHistory}
    /\ albums_sheet \in {<<HeaderRow>> \o Stale(n) : n \in {0, MaxStale}}
    /\ history_sheet = <<HeaderRow>>
    /\ faults = MaxFaults
    /\ (InitRun \/ InitRunMig)
    /\ InitObs

NextFair == Next \/ NextMig

\* a run is a sequential program: whenever a step is possible it is taken
SpecFair == InitFair /\ [][NextFair]_vars /\ WF_vars(NextFair)

(***************************************************************************)
(* verify_import on its own: any two worksheets, any expected counts       *)
(***************************************************************************)
MaxRows == 3

\* an empty worksheet, or a header with up to n rows under it
SheetsUpTo(n) == {<<>>} \cup {<<HeaderRow>> \o Stale(k) : k \in 0..n}

InitVerify ==
    /\ InitEncIdle
    /\ src_albums = 0
    /\ src_history = 0
    /\ albums_sheet \in SheetsUpTo(MaxRows)
    /\ history_sheet \in SheetsUpTo(MaxRows)
    /\ faults \in {0, 1}
    /\ pc = "verify"
    /\ total_albums \in 0..MaxRows
    /\ history_data \in 0..MaxRows
    /\ offset = 0
    /\ batch_albums = <<>>
    /\ loop_i = 0
    /\ imported_count = 0
    /\ albums = <<>>
    /\ verdict = "none"
    /\ InitObs

NextVerify == VerifyImport

SpecVerify == InitVerify /\ [][NextVerify]_vars

(***************************************************************************)
(* Either pipeline started on a destination in any condition: with or      *)
(* without a header row, with or without old rows, or empty                *)
(***************************************************************************)
AnySheets == {<<HeaderRow>> \o Stale(n) : n \in {0, MaxStale}}
                 \cup {Stale(n) : n \in {0, MaxStale}}

InitReset ==
    /\ InitEncIdle
    /\ src_albums \in {1, sheets_batch_size + 1}
    /\ src_history \in {0, 1}
    /\ albums_sheet \in AnySheets
    /\ history_sheet \in AnySheets
    /\ faults = MaxFaults
    /\ (InitRun \/ InitRunMig)
    /\ InitObs

NextReset == Next \/ NextMig

SpecReset == InitReset /\ [][NextReset]_vars

(***************************************************************************)
(* Properties of the encoder (SpecEnc)                                     *)
(***************************************************************************)
Fits(v) == Serializable(v) /\ StrLen(Dumps(v)) <= MAX_CELL_SIZE

\* C1: size invariant - whatever the value and the field name, the string
\* safe_json_stringify returns is at most MAX_CELL_SIZE characters long.
C1_SizeInvariant ==
    epc = "returned" => StrLen(result) <= MAX_CELL_SIZE

AlbumRows(n) == [j \in 1..n |-> AlbumRow(j)]
HistoryRows(n) == [j \in 1..n |-> HistoryRow(j)]

\* the data rows of the sheet are one row for each of the records 1..n
OneRowPerRecord(sheet, n) ==
    /\ Len(sheet) = n + 1
    /\ \A j \in 2..Len(sheet) : sheet[j].kind = "album"
    /\ \A a \in 1..n : \E j \in 2..Len(sheet) : sheet[j] = AlbumRow(a)

\* C3: completeness attestation - a run that returns True left exactly one
\* data row in Albums for every record of the source, whatever failed.
C3_CompletenessAttestation ==
    (pc = "done" /\ verdict = "True") => OneRowPerRecord(albums_sheet, src_albums)

\* C4: count reconciliation - S >= 1 records, H history records and no
\* failure: Albums ends with S + 1 rows (header and the S data rows),
\* verify_import(S, H) is true and the verdict is Succeeded.
C4_CountReconciliation ==
    (pc = "done" /\ failures = {} /\ src_albums >= 1) =>
        /\ Len(get_all_values(albums_sheet)) = src_albums + 1
        /\ albums_sheet = <<HeaderRow>> \o AlbumRows(src_albums)
        /\ verify_import(src_albums, src_history, TRUE)
        /\ verdict = "True"

\* a fault-free run over two pages ended Succeeded
C4_Witness ==
    /\ pc = "done"
    /\ failures = {}
    /\ src_albums = MaxAlbums
    /\ src_history = MaxHistory
    /\ Len(albums_sheet) = MaxAlbums + 1
    /\ verdict = "True"

\* C5: idempotence - after the second of two fault-free runs the destination
\* equals what the first run left, and that content is determined by the
\* source alone, not by the rows the destination held before.
C5_Idempotent ==
    (pc = "done" /\ run = 2) =>
        /\ <<albums_sheet, history_sheet>> = first_run.after
        /\ albums_sheet = <<HeaderRow>> \o AlbumRows(src_albums)
        /\ history_sheet = <<HeaderRow>> \o HistoryRows(src_history)

\* the second run ended on a destination that had held a longer earlier load
C5_Witness ==
    /\ pc = "done"
    /\ run = 2
    /\ src_albums >= 1
    /\ Len(first_run.before[1]) > src_albums + 1
    /\ albums_sheet = first_run.after[1]

Ceil(a, b) == (a + b - 1) \div b

NoFetchError == failures \cap {"connect", "setup", "count", "page"} = {}

\* C6: pagination completeness - with no read error the loop requests
\* ceil(S/P) pages at offsets 0, P, 2P, ... and the pages together are the
\* source's records, each once.
C6_PaginationComplete ==
    (pc \in {"import_history", "verify", "done"} /\ NoFetchError) =>
        /\ requested = [k \in 1..Ceil(src_albums, batch_size) |-> (k - 1) * batch_size]
        /\ fetched = [j \in 1..src_albums |-> j]

\* two pages were requested and all records received, in a run with a failed
\* chunk write
C6_Witness ==
    /\ pc = "done"
    /\ NoFetchError
    /\ "chunk" \in failures
    /\ requested = <<0, batch_size>>
    /\ Len(fetched) = src_albums
    /\ src_albums > batch_size

\* entry k of the log is the first attempt of its chunk
FirstAttempt(k) == k = 1 \/ write_log[k - 1].first # write_log[k].first

\* C7: retry once in the size-bounded pipeline - a chunk whose write failed
\* is written exactly one more time before the loop moves to the next chunk.
C7_RetryOnce ==
    pc = "done" =>
        \A k \in 1..Len(write_log) :
            (FirstAttempt(k) /\ write_log[k].outcome # "ok") =>
                /\ k < Len(write_log)
                /\ write_log[k + 1].first = write_log[k].first
                /\ (k + 2 <= Len(write_log) =>
                        write_log[k + 2].first # write_log[k].first)

(***************************************************************************)
(* Properties of GoogleSheetsImporter.import_albums_in_batches (SpecMig)   *)
(* and of both pipelines (SpecBoth)                                        *)
(***************************************************************************)
\* the log entries that write the chunk starting with record b
AttemptsOf(b) == {k \in 1..Len(write_log) : write_log[k].first = b}

\* the chunk of entry k is finished: the loop has moved past it
Finished(k) == k < Len(write_log) \/ pc # "m_retry"

\* C8: retry exhaustion boundary - a batch has at most two write attempts;
\* it has a second one exactly when the first failed; never a third.
C8_RetryBoundary ==
    \A k \in 1..Len(write_log) :
        /\ Cardinality(AttemptsOf(write_log[k].first)) <= 2
        /\ FirstAttempt(k) =>
              /\ (k < Len(write_log) /\ write_log[k + 1].first = write_log[k].first)
                    => write_log[k].outcome # "ok"
              /\ (write_log[k].outcome # "ok" /\ Finished(k))
                    => (k < Len(write_log) /\ write_log[k + 1].first = write_log[k].first)

\* a batch failed twice, and the next batch was then written
C8_Witness ==
    /\ pc = "done"
    /\ \E k \in 1..Len(write_log) :
         /\ k + 2 <= Len(write_log)
         /\ FirstAttempt(k)
         /\ write_log[k].outcome # "ok"
         /\ write_log[k + 1].outcome # "ok"
         /\ write_log[k + 1].first = write_log[k].first
         /\ write_log[k + 2].first # write_log[k].first

\* rows of the write calls that returned
RECURSIVE RowsWritten(_)
RowsWritten(log) ==
    IF log = <<>> THEN 0
    ELSE (IF Head(log).outcome = "ok" THEN Head(log).n ELSE 0) + RowsWritten(Tail(log))

\* the rows of log entry k are in the sheet, at the rows the call named
Present(k) ==
    \A j \in 0..(write_log[k].n - 1) :
        /\ write_log[k].row + j <= Len(albums_sheet)
        /\ albums_sheet[write_log[k].row + j] = AlbumRow(write_log[k].first + j)

\* C9: graceful transient failure - the retry names the row range and rows of
\* the first attempt; a batch whose write returned has all its rows in the
\* destination; its rows are counted once; the destination holds exactly the
\* rows of the batches whose write was applied, so a run whose batches all
\* got through, at the first or the second attempt, ends as a run without
\* failure.
C9_GracefulTransient ==
    /\ \A k \in 2..Len(write_log) :
          write_log[k].first = write_log[k - 1].first =>
              /\ write_log[k].row = write_log[k - 1].row
              /\ write_log[k].n = write_log[k - 1].n
    /\ \A k \in 1..Len(write_log) : write_log[k].outcome = "ok" => Present(k)
    /\ imported_count = RowsWritten(write_log)
    /\ write_log # <<>> =>
          \A b \in 1..Len(albums) :
              (b + 1 <= Len(albums_sheet) /\ albums_sheet[b + 1] = AlbumRow(b))
                  <=> \E k \in 1..Len(write_log) :
                          /\ Applied(write_log[k].outcome)
                          /\ write_log[k].first <= b
                          /\ b < write_log[k].first + write_log[k].n
    /\ (/\ pc \in {"m_import_history", "m_validate", "done"}
        /\ write_log # <<>>
        /\ \A b \in 1..Len(albums) :
              \E k \in 1..Len(write_log) :
                  /\ write_log[k].outcome = "ok"
                  /\ write_log[k].first <= b
                  /\ b < write_log[k].first + write_log[k].n)
       => /\ albums_sheet = <<HeaderRow>> \o AlbumRows(Len(albums))
          /\ imported_count = Len(albums)

\* a first attempt failed without effect, its retry succeeded, and the run
\* ended with every row in place
C9_Witness ==
    /\ pc = "done"
    /\ Len(albums) = MaxAlbums
    /\ imported_count = MaxAlbums
    /\ albums_sheet = <<HeaderRow>> \o AlbumRows(MaxAlbums)
    /\ \E k \in 1..(Len(write_log) - 1) :
         /\ write_log[k].outcome = "fail"
         /\ write_log[k + 1].outcome = "ok"
         /\ write_log[k + 1].first = write_log[k].first

\* the chunk of entry k is exhausted: its last attempt failed and the loop
\* has moved past it
Exhausted(k) ==
    /\ write_log[k].outcome # "ok"
    /\ Finished(k)
    /\ (k < Len(write_log) => write_log[k + 1].first # write_log[k].first)

AfterTransfer == pc \in {"import_history", "verify", "m_import_history", "m_validate"}

\* C10: an exhausted chunk does not abort the run - its rows are not
\* counted, every chunk of the album set is still attempted, and the run
\* reaches reconciliation and a verdict (unless the history write of the
\* size-bounded pipeline raises afterwards).
C10_ExhaustedChunkContinues ==
    (\E k \in 1..Len(write_log) : Exhausted(k)) =>
        /\ imported_count = RowsWritten(write_log)
        /\ (AfterTransfer \/ pc = "done") =>
              \A a \in 1..Len(fetched) :
                  \E k \in 1..Len(write_log) :
                      /\ write_log[k].first <= fetched[a]
                      /\ fetched[a] < write_log[k].first + write_log[k].n
        /\ pc = "done" =>
              /\ verdict \in {"True", "False"}
              /\ "history_import" \notin failures => reconciled

\* the first chunk was exhausted, later chunks were written, and the run was
\* reconciled
C10_Witness ==
    /\ pc = "done"
    /\ reconciled
    /\ Len(write_log) >= 3
    /\ Exhausted(1)
    /\ write_log[Len(write_log)].outcome = "ok"
    /\ imported_count = RowsWritten(write_log)
    /\ imported_count < Len(fetched)

(***************************************************************************)
(* Accounting and early failures (Spec, SpecBoth)                          *)
(***************************************************************************)
\* the clear and write calls issued on the destination so far
DestinationCalls == {k \in 1..Len(calls) : calls[k].op \notin {"fetch", "sleep"}}

\* the calls that write data rows
DataWrites == {k \in 1..Len(calls) : calls[k].op \in {"write_albums", "write_history"}}

\* C11: no silent data loss - at the end of a run that went through the
\* transfer, the records expected equal the records counted as written plus
\* the records counted as failed.  The importer keeps two counters only,
\* imported_count and truncation_count; no counter is incremented for a
\* skipped page or a failed chunk, so the records counted as failed are 0.
C11_NoSilentLoss ==
    LET records_failed == 0 IN
    (pc = "done" /\ reconciled) => total_albums = imported_count + records_failed

\* C12: a failure while connecting or while counting the source records
\* halts the run with verdict Failed, and no clear or write call is issued on
\* the destination.
C12_EarlyFailureHalts ==
    (failures \cap {"connect", "count"} # {}) =>
        /\ pc = "done"
        /\ verdict = "False"
        /\ DestinationCalls = {}

\* C13: when preparing the destination fails, the run has halted with
\* verdict Failed and no data-row write call was issued.
C13_SetupFailureHalts ==
    "setup" \in failures =>
        /\ pc = "done"
        /\ verdict = "False"
        /\ DataWrites = {}

\* the Albums sheet was cleared, preparing Scraped_History failed, and the
\* run of a non-empty source ended there
C13_Witness ==
    /\ "setup" \in failures
    /\ pc = "done"
    /\ verdict = "False"
    /\ src_albums > 0
    /\ \E k \in 1..Len(calls) : calls[k].op = "clear_albums" /\ calls[k].out = "ok"
    /\ DataWrites = {}

(***************************************************************************)
(* Reconciliation, verdict and termination (Spec, SpecBoth, SpecVerify,    *)
(* SpecFair)                                                               *)
(***************************************************************************)
\* C14: once the transfer has begun, a run that ends has gone through the
\* reconciliation (verify_import was invoked), whatever failed in between.
C14_ReachesReconciliation ==
    (pc = "done" /\ failures \cap {"connect", "setup"} = {}) => reconciled

\* what the reconciler of the pipeline that ran returns in the final state
ReconcilerPassed ==
    IF albums = <<>>
    THEN verify_import(total_albums, history_data, "verify" \notin failures)
    ELSE /\ validate_albums_count("verify" \notin failures)
         /\ validate_sample_data("verify" \notin failures)

\* C15: a run that reached the reconciliation ends Succeeded exactly when
\* the reconciler returned true, however many chunks failed.
C15_VerdictIsReconcilers ==
    (pc = "done" /\ reconciled) =>
        /\ verdict \in {"True", "False"}
        /\ verdict = "True" <=> ReconcilerPassed

\* a run in which a chunk write failed ended Succeeded on the reconciler's word
C15_Witness ==
    /\ pc = "done"
    /\ reconciled
    /\ "chunk" \in failures
    /\ ReconcilerPassed
    /\ verdict = "True"

\* C16: verify_import(expected_albums, expected_history) is true exactly
\* when both tables could be read, Albums has expected_albums rows besides
\* its header and Scraped_History has expected_history rows besides its
\* header.
C16_VerifyImportExact ==
    pc = "done" =>
        (verdict = "True" <=>
            /\ "verify" \notin failures
            /\ Len(albums_sheet) - 1 = total_albums
            /\ Len(history_sheet) - 1 = history_data)

\* both tables hold rows under their header, the counts match and the
\* answer was true
C16_Witness ==
    /\ pc = "done"
    /\ verdict = "True"
    /\ total_albums = MaxRows
    /\ history_data = 1
    /\ Len(albums_sheet) = MaxRows + 1
    /\ Len(history_sheet) = 2

\* C17: termination - every run eventually ends with an explicit verdict.
C17_Terminates == <>(pc = "done" /\ verdict \in {"True", "False"})

\* a run that spent every failure, went through several pages or batches and
\* ended with a verdict
C17_Witness ==
    /\ pc = "done"
    /\ verdict \in {"True", "False"}
    /\ faults = 0
    /\ Len(requested) >= 2
    /\ Len(write_log) >= 2
    /\ reconciled

(***************************************************************************)
(* Pagination (Spec)                                                       *)
(***************************************************************************)
Fetches == {k \in 1..Len(calls) : calls[k].op = "fetch"}

\* the page loop of the run is over
PageLoopEnded ==
    \/ pc \in {"import_history", "verify"}
    \/ pc = "done" /\ failures \cap {"connect", "setup"} = {}

\* C18: the page loop ends exactly when a fetched page is empty - no page is
\* requested after an empty one, and the loop has not ended before an empty
\* page came back.
C18_EmptyPageEndsLoop ==
    /\ \A j, k \in Fetches : j < k => calls[j].n # 0
    /\ PageLoopEnded => \E k \in Fetches : calls[k].n = 0 /\ calls[k].out = "ok"

\* C19: a page whose fetch failed is not requested again - the requests are
\* for offsets 0, batch_size, 2 * batch_size, ... in order, every offset
\* below the total is requested, and the run goes on to the history import.
C19_FailedPageSkipped ==
    /\ \A k \in 1..Len(requested) : requested[k] = (k - 1) * batch_size
    /\ PageLoopEnded => Len(requested) = Ceil(total_albums, batch_size)
    /\ (pc = "done" /\ "page" \in failures) =>
           reconciled \/ "history_import" \in failures

\* the fetch at offset 0 failed, the page at offset batch_size was fetched
\* and written, and the run was reconciled
C19_Witness ==
    /\ pc = "done"
    /\ reconciled
    /\ \E j, k \in Fetches :
          /\ j < k
          /\ calls[j] = Call("fetch", 0, 0, "fail")
          /\ calls[k].at = batch_size
          /\ calls[k].out = "ok"
          /\ calls[k].n > 0
    /\ \E k \in 1..Len(write_log) : write_log[k].first = batch_size + 1

(***************************************************************************)
(* Schema reset (SpecReset)                                                *)
(***************************************************************************)
\* the preparation of the destination has just completed: the run is in its
\* transfer loop and no data row has been written yet
ResetCompleted ==
    /\ pc \in {"page", "chunk", "import_history", "m_batch"}
    /\ DataWrites = {}

\* C20: after the schema reset completed, row 1 of each table is the header
\* and no data row remains, whatever the tables held before.
C20_SchemaReset ==
    ResetCompleted =>
        /\ albums_sheet = <<HeaderRow>>
        /\ history_sheet = <<HeaderRow>>

(***************************************************************************)
(* Placement of the rows (Spec, SpecBoth)                                  *)
(***************************************************************************)
\* C21: absolute positioning - every chunk of import_albums_to_sheets is
\* written at the rows fixed by the positions of its records in the source
\* ordering: the record at 0-based position p (ordering key p + 1) goes to
\* row p + 2, whatever happened to earlier pages and chunks.
C21_AbsolutePositioning ==
    \A k \in 1..Len(write_log) : write_log[k].row = (write_log[k].first - 1) + 2

\* the rows under the header are data rows, none blank, in ascending order
\* of their source keys
ContiguousAscending(sheet) ==
    /\ \A j \in 2..Len(sheet) : sheet[j].kind = "album"
    /\ \A j \in 2..(Len(sheet) - 1) : sheet[j].id < sheet[j + 1].id

\* C22: persisted layout - once the run is past the schema preparation, the
\* Albums table is the header in row 1 followed by a contiguous block of
\* data rows from row 2, in ascending source-key order, whichever chunk
\* writes failed.
C22_PersistedLayout ==
    (pc \in {"page", "chunk", "import_history", "verify", "m_batch", "m_retry",
             "m_import_history", "m_validate"}
       \/ (pc = "done" /\ reconciled)) =>
        /\ Len(albums_sheet) >= 1
        /\ albums_sheet[1] = HeaderRow
        /\ ContiguousAscending(albums_sheet)

(***************************************************************************)
(* Pacing of the writes (SpecBoth)                                         *)
(***************************************************************************)
AlbumWrites == {k \in 1..Len(calls) : calls[k].op = "write_albums"}

\* C30: write pacing - between any two consecutive write calls on the
\* Albums table there is a wait, whatever the outcome of the earlier call.
C30_WritePacing ==
    \A j, k \in AlbumWrites :
        (j < k /\ \A m \in AlbumWrites : ~(j < m /\ m < k)) =>
            \E s \in (j + 1)..(k - 1) : calls[s].op = "sleep"

(***************************************************************************)
(* Truncation policies of the encoder (SpecEnc)                            *)
(***************************************************************************)
\* the call was made on a list / a mapping whose compact JSON is too large
OversizedList ==
    /\ epc = "returned"
    /\ passed.k = "list"
    /\ Serializable(passed)
    /\ ~Fits(passed)

OversizedDict ==
    /\ epc = "returned"
    /\ passed.k = "dict"
    /\ Serializable(passed)
    /\ ~Fits(passed)

\* the element {'position': '...', 'title': '...and <d> more tracks
\* (truncated)', 'type_': 'note'}
TrackNote(d) ==
    JDict(<< <<Lit("position"), JStr(Lit("..."))>>,
            <<Lit("title"), JStr(Lit("...and " \o ToDecimal(d) \o " more tracks (truncated)"))>>,
            <<Lit("type_"), JStr(Lit("note"))>> >>)

\* the element {'name': '...and <d> more credits (truncated)', 'role': 'note'}
CreditNote(d) ==
    JDict(<< <<Lit("name"), JStr(Lit("...and " \o ToDecimal(d) \o " more credits (truncated)"))>>,
            <<Lit("role"), JStr(Lit("note"))>> >>)

\* C24: truncation sentinel - for an oversized 'tracklist' list of n > 20
\* elements the result encodes exactly 21 elements: the first 20 of the
\* input, in order, then one sentinel whose title says that n - 20 more
\* were dropped.
C24_TracklistSentinel ==
    (OversizedList /\ field_name = "tracklist" /\ Len(passed.items) > 20) =>
        result = Dumps(JList(SubSeq(passed.items, 1, 20)
                             \o <<TrackNote(Len(passed.items) - 20)>>))

\* a 25-element track list came back as its first 20 elements and
\* '...and 5 more tracks (truncated)'
C24_Witness ==
    /\ OversizedList
    /\ field_name = "tracklist"
    /\ Len(passed.items) = 25
    /\ result = Dumps(JList(SubSeq(passed.items, 1, 20) \o <<TrackNote(5)>>))
    /\ StrLen(result) <= MAX_CELL_SIZE

\* the cap of a field for a list of n elements (first half: n / 2 rounded up)
CapOf(field, n) ==
    CASE field = "tracklist" -> 20
      [] field = "credits"   -> 30
      [] field = "images"    -> 3
      [] field = "formats"   -> 2
      [] OTHER               -> (n + 1) \div 2

\* C25: for every oversized list, whatever its field, the result encodes at
\* most the cap's number of leading elements and, when elements were
\* dropped, exactly one more element: a sentinel stating how many.
C25_CapAndSentinel ==
    OversizedList =>
        LET items == passed.items
            n == Len(items)
        IN  \E m \in 0..Min(CapOf(field_name, n), n) :
              \/ m = n /\ result = Dumps(JList(items))
              \/ /\ m < n
                 /\ \E note \in {TrackNote(n - m), CreditNote(n - m)} :
                       result = Dumps(JList(SubSeq(items, 1, m) \o <<note>>))

\* C26: truncation counter - a call that does not return the natural
\* compact encoding of its value adds exactly 1 to truncation_count, a call
\* that returns it adds nothing.
C26_TruncationCounter ==
    epc = "returned" =>
        truncation_count =
            (IF Serializable(passed) /\ result = Dumps(passed) THEN 0 ELSE 1)

\* C27: the value handed to safe_json_stringify is not modified by the
\* call - no element is removed from or appended to the caller's list.
C27_SourceNotMutated == epc = "returned" => data = passed

\* a list longer than its cap was truncated and given its sentinel, and the
\* caller's list still has all its elements and no sentinel
C27_Witness ==
    /\ OversizedList
    /\ field_name = "credits"
    /\ Len(passed.items) = CreditsCap + 1
    /\ result = Dumps(JList(SubSeq(passed.items, 1, CreditsCap) \o <<CreditNote(1)>>))
    /\ data = passed
    /\ Len(data.items) = CreditsCap + 1

\* C29: mapping truncation - for an oversized mapping the result encodes a
\* prefix of the entries whose length is at most 80% of MAX_CELL_SIZE: the
\* entry that would take it past the threshold is left out.
C29_MappingPrefix ==
    OversizedDict =>
        /\ \E m \in 0..Len(passed.entries) :
              result = Dumps(JDict(SubSeq(passed.entries, 1, m)))
        /\ 10 * StrLen(result) <= 8 * MAX_CELL_SIZE

(***************************************************************************)
(* Rows (SpecRow)                                                          *)
(***************************************************************************)
\* C23: row width - every row a builder returns has as many cells as the
\* header of its table: 17 for Albums rows in both pipelines, 6 for the
\* history rows of migrate_to_sheets.py, 11 for those of
\* supabase_to_sheets.py, whatever fields the record has or lacks.
C23_RowWidth ==
    epc = "built" =>
        CASE builder = "process_album_for_sheets" -> Len(row) = 17
          [] builder = "album_to_row" ->
                Len(row) = 17 /\ Len(row) = Len(albums_headers)
          [] builder = "history_to_row" ->
                Len(row) = 6 /\ Len(row) = Len(history_headers)
          [] builder = "history_row" -> Len(row) = 11

\* album_to_row made a 17-cell row from a record that has no field at all
C23_Witness ==
    /\ epc = "built"
    /\ builder = "album_to_row"
    /\ \A f \in AllFields : record[f] = Missing
    /\ Len(row) = 17

\* the column of each scalar field in an Albums row
ScalarColumn ==
    [f \in {"id", "title", "year", "artist", "role", "type", "cover_image",
            "formatted_year", "created_at", "updated_at"} |->
        CHOOSE i \in 1..Len(albums_headers) : albums_headers[i] = f]

\* C28: in an Albums row every scalar field that the record lacks, or holds
\* as null, is the empty string, and a missing or null track_count is 0.
C28_MissingOrNull ==
    (epc = "built" /\ builder \in {"process_album_for_sheets", "album_to_row"}) =>
        /\ \A f \in DOMAIN ScalarColumn :
              record[f] \in {Missing, JNull} => row[ScalarColumn[f]] = EmptyStr
        /\ record["track_count"] \in {Missing, JNull} =>
              row[12] \in {JInt(0), JStr(Lit("0"))}

(***************************************************************************)
(* Pacing of the page fetches (Spec)                                       *)
(***************************************************************************)
\* C31: fetch pacing - between any two consecutive page-fetch calls to the
\* source there is a wait, also when the earlier fetch failed or returned an
\* empty page.
C31_FetchPacing ==
    \A j, k \in Fetches :
        (j < k /\ \A m \in Fetches : ~(j < m /\ m < k)) =>
            \E s \in (j + 1)..(k - 1) : calls[s].op = "sleep"

(***************************************************************************)
(* Shape of the write calls (SpecBoth)                                     *)
(***************************************************************************)
DataRowWrites ==
    {k \in 1..Len(calls) : calls[k].op \in {"write_albums", "write_history"}}

\* C32: every data-row write call carries between 1 and 50 rows, targets a
\* row range whose length is the number of rows it carries, and starts at
\* row 2 or below it: no write touches the header row, none is empty.
C32_WriteShape ==
    \A k \in DataRowWrites :
        /\ calls[k].n >= 1
        /\ calls[k].n <= 50
        /\ calls[k].last - calls[k].at + 1 = calls[k].n
        /\ calls[k].at >= 2

(***************************************************************************)
(* The counters of a run (SpecAgain)                                       *)
(***************************************************************************)
CountersAtStart ==
    pc = "connect" => (imported_count = 0 /\ truncation_count = 0)

CountersGrow ==
    pc # "done" =>
        /\ imported_count' >= imported_count
        /\ truncation_count' >= truncation_count

CountOfWritten ==
    /\ imported_count = RowsWritten(write_log)
    /\ imported_count <= Len(fetched)

\* C33: counter lifecycle - at the start of every run_migration call
\* imported_count and truncation_count are 0, also for a second call on the
\* same importer; neither decreases during the run; imported_count is the
\* number of rows of the chunks written successfully so far and never more
\* than the number of records fetched.
C33_CounterLifecycle ==
    /\ [](CountersAtStart /\ CountOfWritten)
    /\ [][CountersGrow]_vars

(***************************************************************************)
(* The destination before the transfer of migrate_to_sheets (SpecMig)      *)
(***************************************************************************)
\* the three connection checks passed and at least one album was exported
TransferAllowed ==
    /\ pc # "m_connect"
    /\ "connect" \notin failures
    /\ albums # <<>>

\* the destination holds what it held when run_migration was called
Untouched ==
    /\ DestinationCalls = {}
    /\ <<albums_sheet, history_sheet>> = first_run.before

\* C34: in migrate_to_sheets.run_migration the destination is not cleared
\* or written unless the three connection checks passed and the export
\* returned at least one album; a run whose export yields no album ends
\* Failed with the previous content of the destination untouched.
C34_NoAlbumsNoTouch ==
    /\ ~Untouched => TransferAllowed
    /\ (pc = "done" /\ albums = <<>>) => (verdict = "False" /\ Untouched)

\* the connections were fine, every fetch of a non-empty source failed, and
\* the run ended Failed with the stale rows of Albums still in place
C34_Witness ==
    /\ pc = "done"
    /\ "connect" \notin failures
    /\ src_albums > 0
    /\ albums = <<>>
    /\ verdict = "False"
    /\ Len(albums_sheet) > 1
    /\ Untouched

====
